---------------------------- MODULE Spec2Model ----------------------------
(***************************************************************************)
(* RepeatingTimer<Context> (src/repeatable_timer.hpp) on an asio           *)
(* io_context that is run by several worker threads.                       *)
(*                                                                         *)
(* Threads: the user threads call create / reschedule / cancel and drop    *)
(* the owning handle; the worker threads run io.run() and execute the      *)
(* completion handlers of the timer's async_wait operations.  Every read   *)
(* or write of a member shared between threads is a step of its own, so    *)
(* the interleavings of the C++ code are the behaviours of the model.      *)
(***************************************************************************)
EXTENDS Integers, Sequences, FiniteSets

\* ------------------------------------------------------------- bounds
MaxTime == 2      \* the steady clock runs from 0 to MaxTime
MaxFires == 2     \* wait operations the reactor completes successfully
MaxReschedules == 1   \* reschedule calls made
MaxCancels == 2       \* cancel() calls made by the user threads
MaxLate == 2      \* wait operations of a stopped timer that complete late

Users     == {"u1", "u2"}
Workers   == {"w1", "w2"}
Threads   == Users \cup Workers
AllTimers == {1, 2}
CreatePeriods == {1}
NewPeriods    == {0, 2}

VARIABLES
    now,        \* std::chrono::steady_clock::now()
    obj,        \* per timer: "none" (not created), "live", "dead" (destroyed)
    handle,     \* per timer: the owner's shared_ptr is non-null
    refs,       \* per timer: use_count of the shared_ptr control block
    period,     \* period_
    running,    \* running_
    context,    \* context_ != nullptr
    callfirst,  \* callfirst_ is callable
    calllast,   \* calllast_ is callable
    expiry,     \* timer_.expiry()
    waits,      \* per timer: the wait operations queued on timer_ (their origin)
    ready,      \* the io_context's queue of completed operations, FIFO
    mtx,        \* the static mtx_: its owner, or "free"
    pc,         \* per thread: the statement it is at
    loc,        \* per thread: the locals of the call it is in
    fires,      \* wait operations completed successfully so far (bounded)
    calls,      \* cancel() calls made so far (bounded)
    createdAt,  \* history: the clock at create()
    armCount,   \* history: expires_at calls made by schedule_next
    rescheds,   \* history: reschedule calls entered
    startCount, \* history: invocations of callfirst_
    stopCount   \* history: invocations of calllast_

tvars == <<obj, handle, refs, period, running, context, callfirst, calllast,
           expiry, waits>>
hvars == <<createdAt, armCount, rescheds, startCount, stopCount>>
vars  == <<now, tvars, ready, mtx, pc, loc, fires, calls, hvars>>

\* The locals of a call: the timer it is on, newPeriod / this_period, saveNew,
\* whether the call of cancel() is the destructor's; and, as history, t0: the
\* clock read by expires_after, d: the expiry when a tick began to rearm,
\* r0: running_ when the handler began.  A local is reset after its last use.
\* For a call made from inside a callback, self is the timer of the handler
\* and ret the statement of the handler the call returns to.
NoLoc == [t |-> 0, p |-> 0, save |-> FALSE, dtor |-> FALSE,
          t0 |-> 0, d |-> 0, r0 |-> FALSE, self |-> 0, ret |-> ""]

\* ------------------------------------------------------------- helpers

\* asio: cancelling the waits of a timer completes each of them with
\* operation_aborted; the handlers are posted to the io_context.
Aborted(t) ==
    [i \in 1..Len(waits[t]) |-> [t |-> t, ok |-> FALSE, err |-> FALSE]]

\* asio: an expired timer completes its waits with a success code.
Fired(t) ==
    [i \in 1..Len(waits[t]) |-> [t |-> t, ok |-> TRUE, err |-> FALSE]]

\* asio: the reactor fails and completes the waits with an error code that is
\* not operation_aborted.
Faulted(t) ==
    [i \in 1..Len(waits[t]) |-> [t |-> t, ok |-> FALSE, err |-> TRUE]]

\* ArmExpiry with the test of callfirst_ inverted: the period is added while
\* the start callback is pending and left out afterwards.
ArmExpiryInverted(first, exp, this_period) ==
    IF first THEN exp + this_period ELSE exp

\* schedule_next, lines 120-125: the expiry the timer is armed with, from
\* whether callfirst_ is callable, the current expiry and this_period.
ArmExpiry(first, exp, this_period) ==
    IF first THEN exp ELSE exp + this_period

Goto(th, label) == pc' = [pc EXCEPT ![th] = label]

\* The process is terminated: every thread stops, and the io_context with its
\* queue and the waits of the timers is gone with it.
Abort ==
    /\ pc' = [th \in Threads |-> "abort"]
    /\ ready' = <<>>
    /\ waits' = [t \in AllTimers |-> <<>>]
Return(th) ==
    IF loc[th].ret = ""
      THEN /\ pc' = [pc EXCEPT ![th] = "idle"]
           /\ loc' = [loc EXCEPT ![th] = NoLoc]
      ELSE /\ pc' = [pc EXCEPT ![th] = loc[th].ret]
           /\ loc' = [loc EXCEPT ![th] = [NoLoc EXCEPT !.t = loc[th].self]]

TypeOK ==
    /\ now \in 0..MaxTime
    /\ obj \in [AllTimers -> {"none", "live", "dead"}]
    /\ mtx \in Threads \cup {"free"}

Init ==
    /\ now = 0
    /\ obj = [t \in AllTimers |-> "none"]
    /\ handle = [t \in AllTimers |-> FALSE]
    /\ refs = [t \in AllTimers |-> 0]
    /\ period = [t \in AllTimers |-> 0]
    /\ running = [t \in AllTimers |-> FALSE]
    /\ context = [t \in AllTimers |-> FALSE]
    /\ callfirst = [t \in AllTimers |-> FALSE]
    /\ calllast = [t \in AllTimers |-> FALSE]
    /\ expiry = [t \in AllTimers |-> 0]
    /\ waits = [t \in AllTimers |-> <<>>]
    /\ ready = <<>>
    /\ mtx = "free"
    /\ pc = [th \in Threads |-> "idle"]
    /\ loc = [th \in Threads |-> NoLoc]
    /\ fires = 0
    /\ calls = 0
    /\ createdAt = [t \in AllTimers |-> 0]
    /\ armCount = [t \in AllTimers |-> 0]
    /\ rescheds = [t \in AllTimers |-> 0]
    /\ startCount = [t \in AllTimers |-> 0]
    /\ stopCount = [t \in AllTimers |-> 0]

\* ------------------------------------------------------------- runtime

\* The steady clock advances.  Its origin is the first create().
Tick ==
    /\ now < MaxTime
    /\ \E t \in AllTimers : obj[t] # "none"
    /\ now' = now + 1
    /\ UNCHANGED <<tvars, ready, mtx, pc, loc, fires, calls, hvars>>

\* The reactor finds the timer expired and completes its waits.
Expire(t) ==
    /\ waits[t] # <<>>
    /\ now >= expiry[t]
    /\ fires + Len(waits[t]) <= MaxFires
    /\ ready' = ready \o Fired(t)
    /\ waits' = [waits EXCEPT ![t] = <<>>]
    /\ fires' = fires + Len(waits[t])
    /\ UNCHANGED <<now, obj, handle, refs, period, running, context, callfirst,
                   calllast, expiry, mtx, pc, loc, calls, hvars>>

\* The reactor completes the waits that a stopped timer has been left with,
\* when the clock has reached their deadline.
ExpireStopped(t) ==
    /\ waits[t] # <<>>
    /\ ~running[t]
    /\ fires + Len(waits[t]) <= MaxFires + MaxLate
    /\ now' = IF now < expiry[t] THEN expiry[t] ELSE now
    /\ ready' = ready \o Fired(t)
    /\ waits' = [waits EXCEPT ![t] = <<>>]
    /\ fires' = fires + Len(waits[t])
    /\ UNCHANGED <<obj, handle, refs, period, running, context, callfirst,
                   calllast, expiry, mtx, pc, loc, calls, hvars>>

\* The reactor reports an error for the waits of the timer.
Fault(t) ==
    /\ waits[t] # <<>>
    /\ fires + Len(waits[t]) <= MaxFires
    /\ ready' = ready \o Faulted(t)
    /\ waits' = [waits EXCEPT ![t] = <<>>]
    /\ fires' = fires + Len(waits[t])
    /\ UNCHANGED <<now, obj, handle, refs, period, running, context, callfirst,
                   calllast, expiry, mtx, pc, loc, calls, hvars>>

\* ------------------------------------------------------------- create

\* create(): construct, store the callbacks, expires_after(0), schedule_next().
\* No other thread can reach the object before async_wait has been called.
Create(u, t, p, ctx, first, last) ==
    /\ pc[u] = "idle"
    /\ obj[t] = "none"
    /\ obj' = [obj EXCEPT ![t] = "live"]
    /\ handle' = [handle EXCEPT ![t] = TRUE]
    /\ refs' = [refs EXCEPT ![t] = 1]
    /\ period' = [period EXCEPT ![t] = p]
    /\ running' = [running EXCEPT ![t] = TRUE]
    /\ context' = [context EXCEPT ![t] = ctx]
    /\ callfirst' = [callfirst EXCEPT ![t] = first]
    /\ calllast' = [calllast EXCEPT ![t] = last]
    /\ expiry' = [expiry EXCEPT ![t] = ArmExpiry(first, now, p)]
    /\ waits' = [waits EXCEPT ![t] = <<"create">>]
    /\ createdAt' = [createdAt EXCEPT ![t] = now]
    /\ armCount' = [armCount EXCEPT ![t] = 1]
    /\ UNCHANGED <<now, ready, mtx, pc, loc, fires, calls, rescheds,
                   startCount, stopCount>>

\* ------------------------------------------------------------- reschedule

\* reschedule(newPeriod, saveNew) is entered by a user thread.
CallReschedule(u, t, np, save) ==
    /\ pc[u] = "idle"
    /\ obj[t] = "live" /\ handle[t]
    /\ rescheds[1] + rescheds[2] < MaxReschedules
    /\ UNCHANGED calls
    /\ pc' = [pc EXCEPT ![u] = "rs_lock"]
    /\ loc' = [loc EXCEPT ![u] = [NoLoc EXCEPT !.t = t, !.p = np, !.save = save]]
    /\ rescheds' = [rescheds EXCEPT ![t] = @ + 1]
    /\ UNCHANGED <<now, tvars, ready, mtx, fires, createdAt, armCount,
                   startCount, stopCount>>

\* reschedule(): period_ is read for the argument before the lock is taken.
CallRescheduleNoArg(u, t) ==
    /\ pc[u] = "idle"
    /\ obj[t] = "live" /\ handle[t]
    /\ rescheds[1] + rescheds[2] < MaxReschedules
    /\ UNCHANGED calls
    /\ pc' = [pc EXCEPT ![u] = "rs_lock"]
    /\ loc' = [loc EXCEPT ![u] = [NoLoc EXCEPT !.t = t, !.p = period[t]]]
    /\ rescheds' = [rescheds EXCEPT ![t] = @ + 1]
    /\ UNCHANGED <<now, tvars, ready, mtx, fires, createdAt, armCount,
                   startCount, stopCount>>

\* The start or periodic callback that worker w is in calls
\* reschedule(newPeriod, saveNew) on timer t: its own timer or another one.
CbCallReschedule(w, t, np, save) ==
    /\ pc[w] \in {"h_in_first", "h_in_cb"}
    /\ obj[t] = "live" /\ handle[t]
    /\ rescheds[1] + rescheds[2] < MaxReschedules
    /\ pc' = [pc EXCEPT ![w] = "rs_lock"]
    /\ loc' = [loc EXCEPT ![w] = [NoLoc EXCEPT !.t = t, !.p = np, !.save = save,
                                               !.self = loc[w].t, !.ret = pc[w]]]
    /\ rescheds' = [rescheds EXCEPT ![t] = @ + 1]
    /\ UNCHANGED <<now, tvars, ready, mtx, fires, calls, createdAt, armCount,
                   startCount, stopCount>>

\* lines 57-58: lock_guard l(mtx_); timer_.cancel();
RsCancel(u) ==
    /\ pc[u] = "rs_lock"
    /\ mtx = "free"
    /\ mtx' = u
    /\ ready' = ready \o Aborted(loc[u].t)
    /\ waits' = [waits EXCEPT ![loc[u].t] = <<>>]
    /\ Goto(u, IF loc[u].save THEN "rs_save" ELSE "rs_after")
    /\ UNCHANGED <<now, obj, handle, refs, period, running, context, callfirst,
                   calllast, expiry, loc, fires, calls, hvars>>

\* lines 60-62: if (saveNew) period_ = newPeriod;
RsSave(u) ==
    /\ pc[u] = "rs_save"
    /\ period' = [period EXCEPT ![loc[u].t] = loc[u].p]
    /\ Goto(u, "rs_after")
    /\ UNCHANGED <<now, obj, handle, refs, running, context, callfirst, calllast,
                   expiry, waits, ready, mtx, loc, fires, calls, hvars>>

\* lines 64-65, 114-115: timer_.expires_after(0) cancels the waits and sets
\* the expiry to now; schedule_next(newPeriod) begins: if (!running_) return;
\* (running_ only ever changes to false, so reading it with the step before
\* loses no outcome).
RsAfter(u) ==
    /\ pc[u] = "rs_after"
    /\ ready' = ready \o Aborted(loc[u].t)
    /\ waits' = [waits EXCEPT ![loc[u].t] = <<>>]
    /\ expiry' = [expiry EXCEPT ![loc[u].t] = now]
    /\ IF running[loc[u].t]
         THEN /\ loc' = [loc EXCEPT ![u].t0 = now]
              /\ Goto(u, "rs_arm")
              /\ UNCHANGED mtx
         ELSE /\ Return(u)
              /\ mtx' = "free"
    /\ UNCHANGED <<now, obj, handle, refs, period, running, context, callfirst,
                   calllast, fires, calls, hvars>>

\* lines 120-125: timer_.expires_at(...): cancels the waits, sets the expiry.
RsArm(u) ==
    /\ pc[u] = "rs_arm"
    /\ ready' = ready \o Aborted(loc[u].t)
    /\ waits' = [waits EXCEPT ![loc[u].t] = <<>>]
    /\ expiry' = [expiry EXCEPT ![loc[u].t] =
                      ArmExpiry(callfirst[loc[u].t], @, loc[u].p)]
    /\ armCount' = [armCount EXCEPT ![loc[u].t] = @ + 1]
    /\ Goto(u, "rs_wait")
    /\ UNCHANGED <<now, obj, handle, refs, period, running, context, callfirst,
                   calllast, mtx, loc, fires, calls, createdAt, rescheds,
                   startCount, stopCount>>

\* lines 128-129, 66: timer_.async_wait(handler); return, releasing mtx_.
RsWait(u) ==
    /\ pc[u] = "rs_wait"
    /\ waits' = [waits EXCEPT ![loc[u].t] = Append(@, "resched")]
    /\ mtx' = "free"
    /\ Return(u)
    /\ UNCHANGED <<now, obj, handle, refs, period, running, context, callfirst,
                   calllast, expiry, ready, fires, calls, hvars>>

\* ------------------------------------------------------------- cancel

\* cancel() is entered by a user thread.
CallCancel(u, t) ==
    /\ pc[u] = "idle"
    /\ obj[t] = "live" /\ handle[t]
    /\ calls < MaxCancels
    /\ calls' = calls + 1
    /\ pc' = [pc EXCEPT ![u] = "c_run"]
    /\ loc' = [loc EXCEPT ![u] = [NoLoc EXCEPT !.t = t]]
    /\ UNCHANGED <<now, tvars, ready, mtx, fires, hvars>>

\* Reset with a destructor that does not call cancel(): the members are
\* destroyed at once.
ResetNoCancel(u, t) ==
    /\ pc[u] = "idle"
    /\ obj[t] = "live" /\ handle[t]
    /\ \A v \in Users : loc[v].t # t
    /\ handle' = [handle EXCEPT ![t] = FALSE]
    /\ refs' = [refs EXCEPT ![t] = @ - 1]
    /\ IF refs[t] = 1
         THEN /\ pc' = [pc EXCEPT ![u] = "d_destroy"]
              /\ loc' = [loc EXCEPT ![u] = [NoLoc EXCEPT !.t = t, !.dtor = TRUE]]
         ELSE UNCHANGED <<pc, loc>>
    /\ UNCHANGED <<now, obj, period, running, context, callfirst, calllast,
                   expiry, waits, ready, mtx, fires, calls, hvars>>

\* The owner drops its handle (timer.reset(), or the handle leaves its scope)
\* while no user thread is inside a call made through it.  The thread that
\* drops the last reference runs ~RepeatingTimer().
Reset(u, t) ==
    /\ pc[u] = "idle"
    /\ obj[t] = "live" /\ handle[t]
    /\ \A v \in Users : loc[v].t # t
    /\ handle' = [handle EXCEPT ![t] = FALSE]
    /\ refs' = [refs EXCEPT ![t] = @ - 1]
    /\ IF refs[t] = 1
         THEN /\ pc' = [pc EXCEPT ![u] = "c_run"]
              /\ loc' = [loc EXCEPT ![u] = [NoLoc EXCEPT !.t = t, !.dtor = TRUE]]
         ELSE UNCHANGED <<pc, loc>>
    /\ UNCHANGED <<now, obj, period, running, context, callfirst, calllast,
                   expiry, waits, ready, mtx, fires, calls, hvars>>

\* line 76: running_ = false;
CRun(th) ==
    /\ pc[th] = "c_run"
    /\ running' = [running EXCEPT ![loc[th].t] = FALSE]
    /\ Goto(th, "c_tcancel")
    /\ UNCHANGED <<now, obj, handle, refs, period, context, callfirst, calllast,
                   expiry, waits, ready, mtx, loc, fires, calls, hvars>>

\* line 77: timer_.cancel();
CTimerCancel(th) ==
    /\ pc[th] = "c_tcancel"
    /\ ready' = ready \o Aborted(loc[th].t)
    /\ waits' = [waits EXCEPT ![loc[th].t] = <<>>]
    /\ Goto(th, "c_chk")
    /\ UNCHANGED <<now, obj, handle, refs, period, running, context, callfirst,
                   calllast, expiry, mtx, loc, fires, calls, hvars>>

\* Where cancel() goes when it is done: back to the caller, or on with the
\* destructor of the members.
CancelDone(th) ==
    IF loc[th].dtor THEN Goto(th, "d_destroy") /\ UNCHANGED loc ELSE Return(th)

\* line 79: if (calllast_)
CChk(th) ==
    /\ pc[th] = "c_chk"
    /\ IF calllast[loc[th].t]
         THEN Goto(th, "c_lock") /\ UNCHANGED loc
         ELSE CancelDone(th)
    /\ UNCHANGED <<now, tvars, ready, mtx, fires, calls, hvars>>

\* lines 80-81: if(context_) std::lock_guard<std::mutex> lock(mtx_);
\* The guard is the if's whole substatement: mtx_ is locked and unlocked
\* again before calllast_ is invoked.  Then calllast_(*context_) begins.
CLock(th) ==
    /\ pc[th] = "c_lock"
    /\ context[loc[th].t] => mtx = "free"
    /\ stopCount' = [stopCount EXCEPT ![loc[th].t] = @ + 1]
    /\ Goto(th, "c_in_last")
    /\ UNCHANGED <<now, tvars, ready, mtx, loc, fires, calls, createdAt,
                   armCount, rescheds, startCount>>

\* line 81: *context_ with context_ == nullptr is undefined behaviour: the
\* call is made with a null reference (CLock), or the process is terminated.
CDerefNull(th) ==
    /\ pc[th] = "c_lock"
    /\ ~context[loc[th].t]
    /\ Abort
    /\ UNCHANGED <<now, obj, handle, refs, period, running, context, callfirst,
                   calllast, expiry, mtx, loc, fires, calls, hvars>>

\* lines 81-82: calllast_ returns; calllast_ = nullptr;
CClear(th) ==
    /\ pc[th] = "c_in_last"
    /\ calllast' = [calllast EXCEPT ![loc[th].t] = FALSE]
    /\ CancelDone(th)
    /\ UNCHANGED <<now, obj, handle, refs, period, running, context, callfirst,
                   expiry, waits, ready, mtx, fires, calls, hvars>>

\* line 86, after cancel(): the members are destroyed; ~steady_timer cancels
\* the waits that are left.
Destroy(th) ==
    /\ pc[th] = "d_destroy"
    /\ obj' = [obj EXCEPT ![loc[th].t] = "dead"]
    /\ ready' = ready \o Aborted(loc[th].t)
    /\ waits' = [waits EXCEPT ![loc[th].t] = <<>>]
    /\ Return(th)
    /\ UNCHANGED <<now, handle, refs, period, running, context, callfirst,
                   calllast, expiry, mtx, fires, calls, hvars>>

\* ------------------------------------------------------------- handler

\* A worker takes the next completed operation.  lines 131-133: a handler
\* completed with operation_aborted returns at once, one completed with
\* another error goes on to report it.
HDispatch(w) ==
    /\ pc[w] = "idle"
    /\ ready # <<>>
    /\ ready' = Tail(ready)
    /\ IF Head(ready).ok
         THEN /\ pc' = [pc EXCEPT ![w] = "h_lock"]
              /\ loc' = [loc EXCEPT ![w] = [NoLoc EXCEPT
                            !.t = Head(ready).t,
                            !.r0 = running[Head(ready).t]]]
         ELSE IF Head(ready).err
                THEN /\ pc' = [pc EXCEPT ![w] = "h_err"]
                     /\ loc' = [loc EXCEPT ![w] = [NoLoc EXCEPT
                                   !.t = Head(ready).t]]
                ELSE UNCHANGED <<pc, loc>>
    /\ UNCHANGED <<now, tvars, mtx, fires, calls, hvars>>

\* The error branch carried on into the body of the handler.
HErrGoesOn(w) ==
    /\ pc[w] = "h_err"
    /\ Goto(w, "h_lock")
    /\ UNCHANGED <<now, tvars, ready, mtx, loc, fires, calls, hvars>>

\* lines 135-136: std::cerr << ...; return;
HErr(w) ==
    /\ pc[w] = "h_err"
    /\ Return(w)
    /\ UNCHANGED <<now, tvars, ready, mtx, fires, calls, hvars>>

\* HLock for a handler that captured an owning pointer: there is always an
\* object to go on with.
HLockOwning(w) ==
    /\ pc[w] = "h_lock"
    /\ refs' = [refs EXCEPT ![loc[w].t] = @ + 1]
    /\ Goto(w, "h_mtx")
    /\ UNCHANGED <<now, obj, handle, period, running, context, callfirst,
                   calllast, expiry, waits, ready, mtx, loc, fires, calls, hvars>>

\* line 139: if (auto self = wptr.lock())
HLock(w) ==
    /\ pc[w] = "h_lock"
    /\ IF refs[loc[w].t] > 0
         THEN /\ refs' = [refs EXCEPT ![loc[w].t] = @ + 1]
              /\ Goto(w, "h_mtx")
              /\ UNCHANGED loc
         ELSE /\ Return(w)
              /\ UNCHANGED refs
    /\ UNCHANGED <<now, obj, handle, period, running, context, callfirst,
                   calllast, expiry, waits, ready, mtx, fires, calls, hvars>>

\* HMtx with a guard that lives to the end of the block (line 151): mtx_ stays
\* locked while the callbacks run.
HMtxKeepsLock(w) ==
    /\ pc[w] = "h_mtx"
    /\ context[loc[w].t] => mtx = "free"
    /\ mtx' = IF context[loc[w].t] THEN w ELSE mtx
    /\ Goto(w, "h_pick")
    /\ UNCHANGED <<now, tvars, ready, loc, fires, calls, hvars>>

\* line 142: if (self->context_) std::lock_guard<std::mutex> lock(self->mtx_);
\* The guard is the if's whole substatement: mtx_ is locked and unlocked
\* again before the callbacks are looked at.
HMtx(w) ==
    /\ pc[w] = "h_mtx"
    /\ context[loc[w].t] => mtx = "free"
    /\ Goto(w, "h_pick")
    /\ UNCHANGED <<now, tvars, ready, mtx, loc, fires, calls, hvars>>

\* lines 145-150: if (callfirst_) callfirst_(ctx) else if (callback_)
\* callback_(ctx): the callback chosen begins.
HPick(w) ==
    /\ pc[w] = "h_pick"
    /\ IF callfirst[loc[w].t]
         THEN /\ Goto(w, "h_in_first")
              /\ startCount' = [startCount EXCEPT ![loc[w].t] = @ + 1]
         ELSE /\ Goto(w, "h_in_cb")
              /\ UNCHANGED startCount
    /\ loc' = [loc EXCEPT ![w].r0 = FALSE]
    /\ UNCHANGED <<now, tvars, ready, mtx, fires, calls, createdAt,
                   armCount, rescheds, stopCount>>

\* lines 146, 150: *self->context_ with context_ == nullptr is undefined
\* behaviour (shared_ptr::operator* requires get() != nullptr).  The call is
\* made with a null reference (HPick), or the process is terminated, as in a
\* build with the standard library's assertions.
HDerefNull(w) ==
    /\ pc[w] = "h_pick"
    /\ ~context[loc[w].t]
    /\ Abort
    /\ UNCHANGED <<now, obj, handle, refs, period, running, context, callfirst,
                   calllast, expiry, mtx, loc, fires, calls, hvars>>

\* lines 146-147: callfirst_ returns; callfirst_ = nullptr;
HClearFirst(w) ==
    /\ pc[w] = "h_in_first"
    /\ callfirst' = [callfirst EXCEPT ![loc[w].t] = FALSE]
    /\ Goto(w, "h_chk")
    /\ UNCHANGED <<now, obj, handle, refs, period, running, context, calllast,
                   expiry, waits, ready, mtx, loc, fires, calls, hvars>>

\* Rearm without the tests of running_.
RearmAlways(w) ==
    /\ loc' = [loc EXCEPT ![w].p = period[loc[w].t], ![w].d = expiry[loc[w].t]]
    /\ Goto(w, "h_arm")
    /\ UNCHANGED <<now, tvars, ready, mtx, fires, calls, hvars>>

\* lines 153-154, 108, 114: if (self->running_) schedule_next(period_):
\* period_ is read for the argument, then if (!running_) return;
\* (running_ only ever changes to false, so the two reads of it and the read
\* of period_ between them are one step).
Rearm(w) ==
    /\ loc' = [loc EXCEPT ![w].p = period[loc[w].t], ![w].d = expiry[loc[w].t]]
    /\ Goto(w, IF running[loc[w].t] THEN "h_arm" ELSE "h_release")
    /\ UNCHANGED <<now, tvars, ready, mtx, fires, calls, hvars>>

\* line 150: callback_ returns, and the handler goes on to line 153.
HCbReturn(w) ==
    /\ pc[w] = "h_in_cb"
    /\ Rearm(w)

\* line 153, after callfirst_ was cleared.
HChk(w) ==
    /\ pc[w] = "h_chk"
    /\ Rearm(w)

\* lines 120-125: timer_.expires_at(...): cancels the waits, sets the expiry.
HArm(w) ==
    /\ pc[w] = "h_arm"
    /\ ready' = ready \o Aborted(loc[w].t)
    /\ waits' = [waits EXCEPT ![loc[w].t] = <<>>]
    /\ expiry' = [expiry EXCEPT ![loc[w].t] =
                      ArmExpiry(callfirst[loc[w].t], @, loc[w].p)]
    /\ armCount' = [armCount EXCEPT ![loc[w].t] = @ + 1]
    /\ Goto(w, "h_wait")
    /\ loc' = [loc EXCEPT ![w].p = 0, ![w].d = 0]
    /\ UNCHANGED <<now, obj, handle, refs, period, running, context, callfirst,
                   calllast, mtx, fires, calls, createdAt, rescheds,
                   startCount, stopCount>>

\* lines 128-129: timer_.async_wait(handler);
HWait(w) ==
    /\ pc[w] = "h_wait"
    /\ waits' = [waits EXCEPT ![loc[w].t] = Append(@, "tick")]
    /\ Goto(w, "h_release")
    /\ UNCHANGED <<now, obj, handle, refs, period, running, context, callfirst,
                   calllast, expiry, ready, mtx, loc, fires, calls, hvars>>

\* line 155: self goes out of scope; the thread that drops the last
\* reference runs ~RepeatingTimer().
HRelease(w) ==
    /\ pc[w] = "h_release"
    /\ refs' = [refs EXCEPT ![loc[w].t] = @ - 1]
    /\ IF refs[loc[w].t] = 1
         THEN /\ pc' = [pc EXCEPT ![w] = "c_run"]
              /\ loc' = [loc EXCEPT ![w] = [NoLoc EXCEPT !.t = loc[w].t, !.dtor = TRUE]]
         ELSE Return(w)
    /\ UNCHANGED <<now, obj, handle, period, running, context, callfirst,
                   calllast, expiry, waits, ready, mtx, fires, calls, hvars>>

\* ------------------------------------------------------------- specification

\* The steps of a thread inside a call.
Step(th) ==
    \/ CRun(th) \/ CTimerCancel(th) \/ CChk(th) \/ CLock(th)
    \/ CClear(th) \/ Destroy(th)

UserStep(u) ==
    \/ RsCancel(u) \/ RsSave(u) \/ RsAfter(u) \/ RsArm(u) \/ RsWait(u)

WorkerStep(w) ==
    \/ HDispatch(w) \/ HLock(w) \/ HMtx(w) \/ HPick(w) \/ HClearFirst(w)
    \/ HCbReturn(w) \/ HChk(w) \/ HArm(w) \/ HWait(w) \/ HRelease(w)

\* The program with the timers of T, created with a context of C (TRUE: a
\* context object, FALSE: nullptr), without calls of reschedule.
TicksOn(T, C) ==
    \/ Tick
    \/ \E t \in T : Expire(t)
    \/ \E t \in T, p \in CreatePeriods, ctx \in C, first \in BOOLEAN,
          last \in BOOLEAN : Create("u1", t, p, ctx, first, last)
    \/ \E u \in Users, t \in T : CallCancel(u, t)
    \/ \E t \in T : Reset("u1", t)
    \/ \E w \in Workers : WorkerStep(w)
    \/ \E th \in Threads : Step(th)

\* The calls of reschedule on the timers of T.
ReschedulesOn(T) ==
    \/ \E u \in Users, t \in T, np \in NewPeriods, save \in BOOLEAN :
          CallReschedule(u, t, np, save)
    \/ \E u \in Users, t \in T : CallRescheduleNoArg(u, t)
    \/ \E u \in Users : UserStep(u)

\* One timer with a context, the user threads calling reschedule and cancel.
Next == TicksOn({1}, {TRUE}) \/ ReschedulesOn({1})

Spec == Init /\ [][Next]_vars

\* The reactor failing for the timers of T, and the handlers reporting it.
FaultsOn(T) ==
    \/ \E t \in T : Fault(t)
    \/ \E w \in Workers : HErr(w)

\* One timer with a context that is never rescheduled.
NextTicks == TicksOn({1}, {TRUE})

SpecTicks == Init /\ [][NextTicks]_vars

\* multi_thread_test.cpp: timers created with a null context, the handlers
\* run by the workers, the timers reset at the end.
NullTicksOn(T) ==
    \/ Tick
    \/ \E t \in T : Expire(t)
    \/ \E t \in T, p \in CreatePeriods, first \in BOOLEAN, last \in BOOLEAN :
          Create("u1", t, p, FALSE, first, last)
    \/ \E t \in T : Reset("u1", t)
    \/ \E w \in Workers :
          \/ HDispatch(w) \/ HLock(w) \/ HMtx(w) \/ HPick(w) \/ HDerefNull(w)
          \/ HClearFirst(w) \/ HCbReturn(w) \/ HChk(w) \/ HArm(w) \/ HWait(w)
          \/ HRelease(w)
    \/ \E th \in Threads : Step(th) \/ CDerefNull(th)

\* Two timers without a context.
NextNull == NullTicksOn({1, 2})

SpecNull == Init /\ [][NextNull]_vars

\* One timer with a context, with the clock running on after the timer is
\* stopped.  The threads of the process are scheduled fairly: a worker inside
\* io.run() takes the next handler and goes on with the one it is in, a
\* thread inside cancel() or the destructor goes on, and the reactor
\* completes a wait whose deadline is reached.
NextQuiesce == TicksOn({1}, {TRUE}) \/ ExpireStopped(1)

SpecQuiesce ==
    /\ Init /\ [][NextQuiesce]_vars
    /\ \A w \in Workers : WF_vars(WorkerStep(w))
    /\ \A th \in Threads : WF_vars(Step(th))
    /\ WF_vars(ExpireStopped(1))

\* The steps of a worker in the handler of a timer that has a periodic
\* callback alone, and in a call of reschedule made from the callback.
NestedStep(w) ==
    \/ HDispatch(w) \/ HLock(w) \/ HMtx(w) \/ HPick(w) \/ HCbReturn(w)
    \/ HArm(w) \/ HWait(w) \/ HRelease(w) \/ UserStep(w)

\* Timers with and without a context whose periodic callback calls
\* reschedule, on its own timer or on the other one; the owner keeps the
\* handles.
NestedOn(T) ==
    \/ Tick
    \/ \E t \in T : Expire(t)
    \/ \E t \in T, p \in CreatePeriods, ctx \in BOOLEAN :
          Create("u1", t, p, ctx, FALSE, FALSE)
    \/ \E w \in Workers, t \in T, np \in NewPeriods, save \in BOOLEAN :
          CbCallReschedule(w, t, np, save)
    \/ \E w \in Workers : NestedStep(w) \/ HDerefNull(w)

NextNested == NestedOn({1, 2})

\* The workers are scheduled fairly: each goes on with the handler it is in
\* and with the call of reschedule it is in, once mtx_ is free.
SpecNested ==
    /\ Init /\ [][NextNested]_vars
    /\ \A w \in Workers : WF_vars(NestedStep(w))

\* One timer with a context, on a reactor that can fail.
NextFaults == TicksOn({1}, {TRUE}) \/ FaultsOn({1})

SpecFaults == Init /\ [][NextFaults]_vars

\* ------------------------------------------------------------- claims

\* Thread th is inside callfirst_ or callback_ of timer t.
InCallback(th, t) == pc[th] \in {"h_in_first", "h_in_cb"} /\ loc[th].t = t

\* Thread th is inside calllast_ of timer t.
InStop(th, t) == pc[th] = "c_in_last" /\ loc[th].t = t

\* Worker w invokes callfirst_ or callback_ in this step.
Invokes(w) == pc[w] = "h_pick" /\ pc'[w] \in {"h_in_first", "h_in_cb"}

\* Worker w, at the end of a tick, calls timer_.expires_at in this step.
TickArms(w) == pc[w] = "h_arm" /\ pc'[w] = "h_wait"

\* C1: for a timer with a non-null context, no two invocations of the start
\* or periodic callback are in progress at the same time.
C1_NoOverlap ==
    \A t \in AllTimers :
        context[t] => Cardinality({w \in Workers : InCallback(w, t)}) <= 1

\* C2: a handler that begins after cancel() has set running_ to false
\* invokes no callback, and no start or periodic callback is invoked after
\* on_stop has been invoked.
C2_NoCallbackAfterCancel ==
    [][\A w \in Workers :
          Invokes(w) => loc[w].r0 /\ stopCount[loc[w].t] = 0]_vars

\* C3: over any interleaving of cancel() calls and the destruction, on_stop
\* is invoked at most once.
C3_StopAtMostOnce ==
    \A t \in AllTimers : stopCount[t] <= 1

\* C4: on_stop is never in progress while a start or periodic callback of the
\* same timer is in progress.
C4_StopNotDuringCallback ==
    \A t \in AllTimers :
        ~ \E th \in Threads, w \in Workers : InStop(th, t) /\ InCallback(w, t)

\* C5: a timer has at most one pending wakeup.
C5_OnePendingWakeup ==
    \A t \in AllTimers : Len(waits[t]) <= 1

\* Every call of cancel() on t that has set running_ to false has also
\* cancelled the pending wakeup.
WakeupCancelled(t) ==
    ~running[t] /\ \A th \in Threads : ~(pc[th] = "c_tcancel" /\ loc[th].t = t)

\* C6: running_ = false is terminal: it never becomes true again, and once
\* cancel() has cancelled the pending wakeup no wakeup is registered.
C6_StoppedStaysStopped ==
    [][\A t \in AllTimers :
          /\ obj[t] = "live" /\ ~running[t] => ~running'[t]
          /\ obj[t] = "live" /\ WakeupCancelled(t) =>
                 Len(waits'[t]) <= Len(waits[t])]_vars

\* Timer t was created without a start callback.
NoStartCallback(t) == obj[t] # "none" /\ ~callfirst[t] /\ startCount[t] = 0

\* C7 as stated: the wakeup armed by create() for a timer without a start
\* callback has the creation time as its deadline.
C7_FirstWakeupAtCreation ==
    \A t \in AllTimers :
        NoStartCallback(t) /\ waits[t] = <<"create">> =>
            expiry[t] = createdAt[t]

\* C7 as amended: for a timer without a start callback that is not
\* rescheduled, the wakeup armed by create() has the deadline creation time
\* plus period, no periodic callback runs before that time, and the k-th
\* wakeup armed has the deadline creation time plus k periods.
C7_FirstWakeupAfterPeriod ==
    \A t \in AllTimers :
        NoStartCallback(t) /\ rescheds[t] = 0 =>
            /\ waits[t] = <<"create">> => expiry[t] = createdAt[t] + period[t]
            /\ (\E w \in Workers : InCallback(w, t)) =>
                   now >= createdAt[t] + period[t]
            /\ expiry[t] = createdAt[t] + armCount[t] * period[t]

\* C7 witness: the second periodic callback of a timer without a start
\* callback is in progress, one period after the first.
C7_Witness ==
    /\ NoStartCallback(1) /\ rescheds[1] = 0
    /\ armCount[1] = 2 /\ waits[1] = <<>>
    /\ \E w \in Workers : pc[w] = "h_in_cb" /\ loc[w].t = 1

\* C8: the start callback is invoked at most once, and the periodic callback
\* is not in progress while the start callback is still to be invoked.
C8_StartOnce ==
    \A t \in AllTimers :
        /\ startCount[t] <= 1
        /\ (\E w \in Workers : pc[w] = "h_in_cb" /\ loc[w].t = t) =>
               ~(callfirst[t] /\ startCount[t] = 0)

\* C9: when a tick rearms the timer and no start callback is pending, the new
\* deadline is the previous deadline plus the stored period, the two taken
\* either when the timer is armed or when the tick began to rearm.
C9_RearmAddsStoredPeriod ==
    [][\A w \in Workers :
          TickArms(w) /\ ~callfirst[loc[w].t] =>
              \/ expiry'[loc[w].t] = expiry[loc[w].t] + period[loc[w].t]
              \/ expiry'[loc[w].t] = loc[w].d + loc[w].p]_vars

\* C10: reschedule(newPeriod, ...) of a running timer without a start callback
\* returns with exactly one pending wakeup, due at the time of the call plus
\* newPeriod, and the rearm of a tick does not cancel that wakeup.
C10_RescheduledTickDelivered ==
    [][/\ \A u \in Users :
            pc[u] = "rs_wait" /\ pc'[u] = "idle" /\ NoStartCallback(loc[u].t) =>
                /\ waits'[loc[u].t] = <<"resched">>
                /\ expiry'[loc[u].t] = loc[u].t0 + loc[u].p
       /\ \A w \in Workers :
            TickArms(w) /\ NoStartCallback(loc[w].t) =>
                \A i \in 1..Len(waits[loc[w].t]) :
                    waits[loc[w].t][i] # "resched"]_vars

\* Every call of reschedule on t has returned, and there was one.
Rescheduled(t) ==
    /\ rescheds[t] > 0
    /\ \A u \in Users :
          ~(loc[u].t = t /\ pc[u] \in {"rs_lock", "rs_save", "rs_after",
                                       "rs_arm", "rs_wait"})

\* C11: period_ is written by reschedule(newPeriod, true) alone, which leaves
\* it equal to newPeriod when it returns; reschedule(newPeriod, false) leaves
\* it as it was; and once reschedule has returned every rearm of a tick of
\* the running timer advances the deadline by the period stored at that time.
C11_PeriodPersistence ==
    [][/\ \A t \in AllTimers :
            obj[t] = "live" /\ period'[t] # period[t] =>
                \E u \in Users : /\ pc[u] = "rs_save" /\ loc[u].t = t
                                 /\ loc[u].save /\ period'[t] = loc[u].p
       /\ \A u \in Users :
            pc[u] \in {"rs_after", "rs_wait"} /\ pc'[u] = "idle" /\ loc[u].save =>
                period'[loc[u].t] = loc[u].p
       /\ \A w \in Workers :
            (/\ TickArms(w) /\ ~callfirst[loc[w].t]
             /\ Rescheduled(loc[w].t) /\ running[loc[w].t]) =>
                expiry'[loc[w].t] = expiry[loc[w].t] + period[loc[w].t]]_vars

\* Thread th, running the destructor, invokes calllast_ in this step.
DtorInvokesStop(th) ==
    pc[th] = "c_lock" /\ loc[th].dtor /\ pc'[th] = "c_in_last"

\* C12: a destroyed timer has running_ = false, no pending wakeup and its
\* on_stop, if it had one, invoked; on_stop was invoked once if cancel() was
\* never called, and the destructor does not invoke an on_stop that has been
\* invoked before.
C12_DestructionCancels ==
    [][/\ \A t \in AllTimers :
            obj'[t] = "dead" =>
                /\ ~running'[t] /\ waits'[t] = <<>> /\ ~calllast'[t]
                /\ calls' = 0 => stopCount'[t] <= 1
       /\ \A th \in Threads :
            DtorInvokesStop(th) => stopCount[loc[th].t] = 0]_vars

\* C12 witness: a timer that was never cancelled has been destroyed and its
\* on_stop was invoked, once.
C12_Witness ==
    obj[1] = "dead" /\ calls = 0 /\ stopCount[1] = 1 /\ ~running[1]

\* C13: a handler completed with an error other than operation_aborted goes
\* to the error branch and returns from it with the timer as it was: no
\* callback invoked, no wakeup registered, running_ and the expiry unchanged.
C13_ErrorTickDoesNothing ==
    [][\A w \in Workers :
          /\ (/\ pc[w] = "idle" /\ pc'[w] # "idle"
              /\ ~Head(ready).ok /\ Head(ready).err) =>
                 pc'[w] = "h_err" /\ UNCHANGED <<tvars, hvars>>
          /\ pc[w] = "h_err" /\ pc'[w] # "h_err" =>
                 pc'[w] = "idle" /\ UNCHANGED <<tvars, hvars>>]_vars

\* C13 witness: the only wakeup of a running timer has completed with an
\* error and its handler has returned: the timer is running, never stopped,
\* and has neither a pending wakeup nor a handler queued or in progress.
C13_Witness ==
    /\ obj[1] = "live" /\ running[1] /\ stopCount[1] = 0
    /\ fires > 0 /\ waits[1] = <<>> /\ ready = <<>>
    /\ \A th \in Threads : pc[th] = "idle"

\* Worker w is in the body of a handler of timer t, past wptr.lock().
InHandler(w, t) ==
    /\ loc[w].t = t
    /\ pc[w] \in {"h_mtx", "h_pick", "h_in_first", "h_in_cb", "h_chk", "h_arm",
                  "h_wait", "h_release"}

\* C14: when the owner drops the last reference the destructor runs at once,
\* in that thread, whether or not a wakeup is pending; and once no reference
\* is left no handler of the timer gets past wptr.lock(): none invokes a
\* callback and none registers a wakeup.
C14_PendingWakeupDoesNotOwn ==
    [][\A t \in AllTimers :
          /\ handle[t] /\ ~handle'[t] /\ refs[t] = 1 =>
                \E u \in Users : /\ pc'[u] = "c_run" /\ loc'[u].t = t
                                 /\ loc'[u].dtor
          /\ obj'[t] = "live" /\ refs'[t] = 0 =>
                \E th \in Threads : loc'[th].t = t /\ loc'[th].dtor
          /\ obj[t] # "none" /\ refs[t] = 0 =>
                /\ \A w \in Workers : ~InHandler(w, t) /\ ~InHandler(w, t)'
                /\ Len(waits'[t]) <= Len(waits[t])
                /\ startCount'[t] = startCount[t]]_vars

\* C14 witness: the owner dropped the only reference while a wakeup was
\* registered; the timer is destroyed, and the handler of the wakeup, which
\* had completed with success, is run by a worker afterwards.
C14_Witness ==
    /\ obj[1] = "dead" /\ calls = 0
    /\ \E w \in Workers : pc[w] = "h_lock" /\ loc[w].t = 1

\* C15: for a timer without a context, a handler that has the object goes on
\* to invoke the start or the periodic callback, does so without holding
\* mtx_, and, when the callback has returned and running_ is true, rearms.
C15_NullContextTicks ==
    [][\A w \in Workers :
          (loc[w].t \in AllTimers /\ ~context[loc[w].t]) =>
              /\ pc[w] = "h_pick" /\ pc'[w] # "h_pick" =>
                     pc'[w] \in {"h_in_first", "h_in_cb"}
              /\ (/\ pc[w] \in {"h_in_cb", "h_chk"} /\ pc'[w] # pc[w]
                  /\ running[loc[w].t]) => pc'[w] = "h_arm"
              /\ pc[w] = "h_arm" /\ pc'[w] # "h_arm" => pc'[w] = "h_wait"
              /\ pc[w] \in {"h_in_first", "h_in_cb"} => mtx # w]_vars

\* C16: a thread inside a start, periodic or stop callback of a timer with a
\* context holds mtx_, and no two threads are inside callbacks of timers with
\* a context at the same time.
C16_CallbacksUnderLock ==
    /\ \A t \in AllTimers, th \in Threads :
          context[t] /\ (InCallback(th, t) \/ InStop(th, t)) => mtx = th
    /\ \A t1, t2 \in AllTimers, th1, th2 \in Threads :
          (/\ context[t1] /\ context[t2] /\ th1 # th2
           /\ InCallback(th1, t1) \/ InStop(th1, t1)) =>
              ~(InCallback(th2, t2) \/ InStop(th2, t2))

\* The start callback of timer t is still to be invoked.
StartPending(t) == callfirst[t] /\ startCount[t] = 0

\* C17: while the start callback is still to be invoked, create() and
\* reschedule arm the timer with the time of the call as the deadline; and
\* once the start callback has been invoked, the rearm of a tick sets the
\* deadline to the deadline before it plus the stored period, the two taken
\* either when the timer is armed or when the tick began to rearm.
C17_StartPendingNoAdvance ==
    [][/\ \A t \in AllTimers :
            obj[t] = "none" /\ obj'[t] = "live" /\ StartPending(t)' =>
                expiry'[t] = now
       /\ \A u \in Users :
            (/\ pc[u] = "rs_arm" /\ pc'[u] = "rs_wait"
             /\ StartPending(loc[u].t)) =>
                expiry'[loc[u].t] = loc[u].t0
       /\ \A w \in Workers :
            (/\ TickArms(w) /\ startCount[loc[w].t] > 0
             /\ running[loc[w].t]) =>
                \/ expiry'[loc[w].t] = expiry[loc[w].t] + period[loc[w].t]
                \/ expiry'[loc[w].t] = loc[w].d + loc[w].p]_vars

\* C20: when the owner drops its handle while a handler holds a reference,
\* the destructor is left to the worker that releases the last reference; it
\* invokes on_stop once, with no start or periodic callback in progress, and
\* cancels the wakeup the tick registered; and no handler begins a tick of
\* the timer once the owner has dropped its handle.
C20_DropDuringTick ==
    [][/\ \A t \in AllTimers :
            /\ handle[t] /\ ~handle'[t] /\ refs[t] > 1 =>
                  \A u \in Users : pc'[u] = pc[u]
            /\ obj[t] = "live" /\ obj'[t] = "dead" =>
                  waits'[t] = <<>> /\ (calls = 0 => stopCount'[t] <= 1)
       /\ \A th \in Threads :
            DtorInvokesStop(th) =>
                /\ stopCount[loc[th].t] = 0
                /\ \A w \in Workers : ~InCallback(w, loc[th].t)
       /\ \A w \in Workers :
            pc[w] = "h_lock" /\ pc'[w] = "h_mtx" => handle[loc[w].t]]_vars

\* No wakeup is pending, no handler is queued and no worker is in a handler.
Quiet ==
    /\ \A t \in AllTimers : waits[t] = <<>>
    /\ ready = <<>>
    /\ \A w \in Workers : pc[w] = "idle"

\* C18: once the timer has been cancelled or its destruction has begun, the
\* event loop eventually has no pending wakeup, no queued handler and no
\* handler in progress, and stays so.
C18_Quiescence ==
    (obj[1] # "none" /\ ~running[1]) ~> []Quiet

\* C18 witness: a wakeup that the stopped timer was left with has completed
\* at its deadline, after the end of the period observed otherwise, and the
\* event loop has come to rest.
C18_Witness ==
    /\ obj[1] # "none" /\ ~running[1] /\ Quiet
    /\ now > MaxTime /\ \A th \in Threads : pc[th] = "idle"

\* The process has been terminated.
Terminated == \E th \in Threads : pc[th] = "abort"

\* Thread th is inside a call of reschedule.
InReschedule(th) ==
    pc[th] \in {"rs_lock", "rs_save", "rs_after", "rs_arm", "rs_wait"}

\* C19: while the process lives, mtx_ is always released again, and a call
\* of reschedule made from inside a callback returns to the callback.
C19_NoDeadlock ==
    /\ (mtx # "free") ~> (mtx = "free" \/ Terminated)
    /\ \A w \in Workers :
          InReschedule(w) ~>
              (pc[w] \in {"h_in_first", "h_in_cb"} \/ Terminated)

\* C19 witness: the only handler run so far is one of timer 1, both timers
\* have a context, and the periodic callback of timer 1 has called reschedule
\* on timer 2 and is back in the callback, with mtx_ free.
C19_Witness ==
    /\ context[1] /\ context[2] /\ fires = 1 /\ rescheds[2] = 1
    /\ mtx = "free" /\ waits[2] = <<"resched">>
    /\ pc["w1"] = "h_in_cb" /\ loc["w1"].t = 1 /\ pc["w2"] = "idle"

=============================================================================
